---- MODULE Spec2Model ----
(***************************************************************************)
(* Model of prop-hell (src/main.tsx): a Solid view tree App > Table > Row  *)
(* > Cell in which every component provides its own props through a        *)
(* context, and a per-App store holds the hovered cell.                     *)
(*                                                                         *)
(* Indices are 0-based as in the source (<For>'s index()); TLA+ sequences   *)
(* are 1-based, so item i of a sequence has index i - 1.                    *)
(***************************************************************************)
EXTENDS Integers, Sequences, FiniteSets, TLC

VARIABLES data, tables, app, dom, pointer, last, probe

vars == <<data, tables, app, dom, pointer, last, probe>>

-----------------------------------------------------------------------------
(* Bounds of the model *)

MaxTables == 2
MaxRows == 2
MaxCells == 2
MaxMounted == 8
MaxArg == 1

(* The "no selection" sentinel of the store *)
NoIndex == -1

(* The App roots that can be mounted: render() mounts one; a second,       *)
(* independent tree is mounted next to it where two trees are compared.     *)
Roots == {"rootA", "rootB"}

Fields == {"table", "row", "cell"}

-----------------------------------------------------------------------------
(* Data: TableSchema[] / RowSchema / CellSchema.  A dataset is fixed by its *)
(* shape; names follow the position ("T0", "R0", "C1", ...).                *)

CellSchema(k) == [name |-> <<"C", k - 1>>]

RowSchema(j, n) == [name |-> <<"R", j - 1>>, cells |-> [k \in 1..n |-> CellSchema(k)]]

TableSchema(i, shape) ==
    [name |-> <<"T", i - 1>>, rows |-> [j \in 1..Len(shape) |-> RowSchema(j, shape[j])]]

(* nT tables of nR rows of nC cells each, at most MaxMounted cells in all *)
Shapes ==
    {[i \in 1..n[1] |-> [j \in 1..n[2] |-> n[3]]] :
        n \in {m \in (0..MaxTables) \X (0..MaxRows) \X (0..MaxCells) :
                  m[1] * m[2] * m[3] <= MaxMounted}}

Datasets == {[i \in 1..Len(s) |-> TableSchema(i, s[i])] : s \in Shapes}

-----------------------------------------------------------------------------
(* Contexts.  createContext() is called without a default value, so a      *)
(* lookup outside a provider yields undefined.                              *)

Provider(value) == [defined |-> TRUE, value |-> value]

createContext == [defined |-> FALSE]

useContext(ctx) == ctx

(* A store shared by every tree instead of the nearest provider's *)
useAppShared(scope) ==
    IF scope.AppContext.defined THEN Provider("rootA") ELSE scope.AppContext

useApp(scope) == useContext(scope.AppContext)

(* A context created with a default value *)
useTableDefault(scope) ==
    IF scope.TableContext.defined
    THEN scope.TableContext
    ELSE Provider([index |-> 0, name |-> <<"T", 0>>, rows |-> <<>>])

useTable(scope) == useContext(scope.TableContext)

useRow(scope) == useContext(scope.RowContext)

(* Positions counted from one *)
ForOneBased(each) == {[item |-> each[i], index |-> i] : i \in 1..Len(each)}

(* <For each={list}>{(item, index) => ...}</For> *)
For(each) == {[item |-> each[i], index |-> i - 1] : i \in 1..Len(each)}

TypeError == [outcome |-> "TypeError"]

(* What a Cell reads of an ambient Table or Row record.  The record's rows  *)
(* or cells are the entries of the tables store itself, read through the    *)
(* props, and stay there.                                                   *)
Identity(props) == [index |-> props.index, name |-> props.name]

(* Cell(props): the three array destructurings throw a TypeError on        *)
(* undefined; otherwise the instance keeps its three ambient values.       *)
Cell(scope, props) ==
    LET a == useApp(scope)
        t == useTable(scope)
        r == useRow(scope)
    IN  IF ~a.defined \/ ~t.defined \/ ~r.defined
        THEN TypeError
        ELSE [outcome |-> "mounted", app |-> a.value, table |-> Identity(t.value),
              row |-> Identity(r.value), props |-> props]

Row(scope, props) ==
    LET inner == [scope EXCEPT !.RowContext = Provider(props)]
    IN  {Cell(inner, [index |-> e.index, name |-> e.item.name]) : e \in For(props.cells)}

Table(scope, props) ==
    LET inner == [scope EXCEPT !.TableContext = Provider(props)]
    IN  UNION {Row(inner, [index |-> e.index, name |-> e.item.name, cells |-> e.item.cells])
                 : e \in For(props.rows)}

App(root, tbls) ==
    LET inner == [AppContext |-> Provider(root), TableContext |-> createContext,
                  RowContext |-> createContext]
    IN  UNION {Table(inner, [index |-> e.index, name |-> e.item.name, rows |-> e.item.rows])
                 : e \in For(tbls)}

-----------------------------------------------------------------------------
(* The place of a Cell in the tree is found by the names it renders         *)
(* ("Table: T0 / Row: R0 / Cell: C1").                                      *)

Position(cell) == <<cell.table.name[2], cell.row.name[2], cell.props.name[2]>>

NoCell == <<>>

-----------------------------------------------------------------------------
(* The app store and the reactive style of each Cell *)

NoSelection == [table |-> NoIndex, row |-> NoIndex, cell |-> NoIndex]

Coordinate(a) == <<a.table, a.row, a.cell>>

(* The row comparison left out *)
backgroundIgnoringRow(a, cell) ==
    IF a.table = cell.table.index /\ a.cell = cell.props.index THEN "skyblue" ELSE "none"

(* Cell.background: the && chain reads app.row only when app.table matched, *)
(* and app.cell only when app.row matched; the fields read are the ones the *)
(* style effect is subscribed to.                                           *)
background(a, cell) ==
    IF a.table = cell.table.index /\ a.row = cell.row.index /\ a.cell = cell.props.index
    THEN "skyblue"
    ELSE "none"

tracked(a, cell) ==
    {"table"}
      \cup (IF a.table = cell.table.index THEN {"row"} ELSE {})
      \cup (IF a.table = cell.table.index /\ a.row = cell.row.index THEN {"cell"} ELSE {})

(* An assignment to the props in place of a comparison *)
styleAssigning(a, cell) ==
    [cell |-> [cell EXCEPT !.props.index = a.table],
     background |-> background(a, cell), deps |-> tracked(a, cell)]

(* One run of a Cell's style effect: the element keeps the instance, its    *)
(* painted background and the store fields the run has read.                *)
style(a, cell) ==
    [cell |-> cell, background |-> background(a, cell), deps |-> tracked(a, cell)]

(* render(() => <App />): every Cell of the tree with its first style run *)
render(root, tbls, a) ==
    LET cells == App(root, tbls)
    IN  [p \in {Position(c) : c \in cells} |->
            LET c == CHOOSE x \in cells : Position(x) = p
            IN  style(a[c.app], c)]

HighlightedIn(d, root) == {p \in DOMAIN d[root] : d[root][p].background = "skyblue"}

Highlighted(d) == UNION {{<<r, p>> : p \in HighlightedIn(d, r)} : r \in DOMAIN d}

(* Re-run the style effect of every Cell subscribed to a changed field of   *)
(* the store it reads.                                                      *)
runEffects(a, d, store, changed) ==
    [r \in DOMAIN d |->
        [p \in DOMAIN d[r] |->
            IF d[r][p].cell.app = store /\ d[r][p].deps \cap changed # {}
            THEN style(a[store], d[r][p].cell)
            ELSE d[r][p]]]

(* Row and cell written to each other's field *)
hoverCellSwapped(table, row, cell) ==
    <<<<"table", table>>, <<"row", cell>>, <<"cell", row>>>>

(* Negative indices rejected *)
hoverCellValidated(table, row, cell) ==
    IF table < 0 \/ row < 0 \/ cell < 0
    THEN <<>>
    ELSE <<<<"table", table>>, <<"row", row>>, <<"cell", cell>>>>

(* The cell field left as it was *)
hoverResetPartial == <<<<"table", NoIndex>>, <<"row", NoIndex>>>>

(* The recipes handed to produce(): the field writes, in order *)
hoverCell(table, row, cell) == <<<<"table", table>>, <<"row", row>>, <<"cell", cell>>>>

hoverReset == <<<<"table", NoIndex>>, <<"row", NoIndex>>, <<"cell", NoIndex>>>>

RECURSIVE produce(_, _)
produce(state, recipe) ==
    IF recipe = <<>>
    THEN state
    ELSE produce([state EXCEPT ![recipe[1][1]] = recipe[1][2]], Tail(recipe))

(* What one flush of the effects shows: the store as the effects read it    *)
(* and the cells painted skyblue afterwards.                                *)
Flush(a, d, store) == [seen |-> a[store], highlighted |-> Highlighted(d)]

(* Every field write notifies at once, outside a batch *)
RECURSIVE setAppUnbatched(_, _, _, _)
setAppUnbatched(store, recipe, a, d) ==
    IF recipe = <<>>
    THEN [app |-> a, dom |-> d, changed |-> {}, flushes |-> <<>>]
    ELSE LET w == recipe[1]
             changed == IF a[store][w[1]] = w[2] THEN {} ELSE {w[1]}
             a1 == [a EXCEPT ![store][w[1]] = w[2]]
             d1 == runEffects(a1, d, store, changed)
             rest == setAppUnbatched(store, Tail(recipe), a1, d1)
         IN  [rest EXCEPT !.changed = changed \cup @,
                          !.flushes =
                 (IF changed = {} THEN <<>> ELSE <<Flush(a1, d1, store)>>) \o @]

(* The effects notified before the recipe has written the store *)
setAppNotifyFirst(store, recipe, a, d) ==
    LET final == produce(a[store], recipe)
        changed == {f \in Fields : a[store][f] # final[f]}
        d1 == runEffects(a, d, store, changed)
    IN  [app |-> [a EXCEPT ![store] = final], dom |-> d1, changed |-> changed,
         flushes |-> IF changed = {} THEN <<>> ELSE <<Flush(a, d1, store)>>]

(* setApp(produce(recipe)): the setter runs the recipe inside one batch, a  *)
(* write of an equal value notifies nobody, and the effects run once, after *)
(* the last write.                                                          *)
setApp(store, recipe, a, d) ==
    LET final == produce(a[store], recipe)
        changed == {f \in Fields : a[store][f] # final[f]}
        a1 == [a EXCEPT ![store] = final]
        d1 == runEffects(a1, d, store, changed)
    IN  [app |-> a1, dom |-> d1, changed |-> changed,
         flushes |-> IF changed = {} THEN <<>> ELSE <<Flush(a1, d1, store)>>]

-----------------------------------------------------------------------------
(* Initial state: the trees of `roots` mounted over the imported data *)

Mount(roots) ==
    /\ data \in Datasets
    /\ tables = [r \in roots |-> data]
    /\ app = [r \in roots |-> NoSelection]
    /\ dom = [r \in roots |-> render(r, tables[r], app)]
    /\ pointer = [r \in roots |-> NoCell]
    /\ last = [op |-> "mount", root |-> "", args |-> <<>>, changed |-> {},
               flushes |-> <<>>]
    /\ probe = <<>>

Init == Mount({"rootA"})

InitRoots == Mount(Roots)

(* One handler run on the store `store`, triggered in the tree `root`; the  *)
(* run leaves behind the store fields it changed and what its effects saw.  *)
Dispatch(op, root, args, store, recipe, ptr) ==
    LET res == setApp(store, recipe, app, dom)
    IN  /\ app' = res.app
        /\ dom' = res.dom
        /\ pointer' = ptr
        /\ last' = [op |-> op, root |-> root, args |-> args, changed |-> res.changed,
                    flushes |-> res.flushes]
        /\ UNCHANGED <<data, tables, probe>>

(* Cell.onPointerOver / Cell.onPointerOut of the Cell mounted at pos.  The   *)
(* pointer may enter a Cell from anywhere; it leaves the Cell it is over.   *)
onPointerOver(root, pos) ==
    LET c == dom[root][pos].cell
    IN  Dispatch("pointerover", root, pos, c.app,
                 hoverCell(c.table.index, c.row.index, c.props.index),
                 [pointer EXCEPT ![root] = pos])

onPointerOut(root, pos) ==
    LET c == dom[root][pos].cell
    IN  /\ pointer[root] = pos
        /\ Dispatch("pointerout", root, pos, c.app, hoverReset,
                    [pointer EXCEPT ![root] = NoCell])

Next ==
    \E root \in DOMAIN dom : \E pos \in DOMAIN dom[root] :
        \/ onPointerOver(root, pos)
        \/ onPointerOut(root, pos)

Spec == Init /\ [][Next]_vars

-----------------------------------------------------------------------------
(* The two actions of a root called directly, with any arguments *)

ArgRange == NoIndex..MaxArg

actions_hoverCell(root, table, row, cell) ==
    Dispatch("hoverCell", root, <<table, row, cell>>, root, hoverCell(table, row, cell),
             pointer)

actions_hoverReset(root) ==
    Dispatch("hoverReset", root, <<>>, root, hoverReset, pointer)

NextApi ==
    \E root \in DOMAIN app :
        \/ \E table \in ArgRange, row \in ArgRange, cell \in ArgRange :
              actions_hoverCell(root, table, row, cell)
        \/ actions_hoverReset(root)

SpecApi == Init /\ [][NextApi]_vars

-----------------------------------------------------------------------------
(* A Cell constructed on its own, under any combination of providers *)

TableProps == {[index |-> e.index, name |-> e.item.name, rows |-> e.item.rows] : e \in For(data)}

RowProps ==
    UNION {{[index |-> e.index, name |-> e.item.name, cells |-> e.item.cells]
              : e \in For(t.rows)} : t \in TableProps}

Scopes ==
    {[AppContext |-> a, TableContext |-> t, RowContext |-> r] :
        a \in {createContext} \cup {Provider(x) : x \in DOMAIN app},
        t \in {createContext} \cup {Provider(x) : x \in TableProps},
        r \in {createContext} \cup {Provider(x) : x \in RowProps}}

ConstructCell(scope, index) ==
    /\ probe' = <<scope, Cell(scope, [index |-> index, name |-> <<"C", index>>])>>
    /\ UNCHANGED <<data, tables, app, dom, pointer, last>>

NextMount == \E scope \in Scopes, index \in 0..MaxCells : ConstructCell(scope, index)

SpecMount == Init /\ [][NextMount]_vars

(* Two independent trees, driven by the same pointer events *)
SpecRoots == InitRoots /\ [][Next]_vars

-----------------------------------------------------------------------------
(* Properties *)

InBounds(tbls, t, r, c) ==
    /\ t + 1 \in DOMAIN tbls
    /\ r + 1 \in DOMAIN tbls[t + 1].rows
    /\ c + 1 \in DOMAIN tbls[t + 1].rows[r + 1].cells

(* The ambient coordinate of the Cell mounted at pos *)
AmbientCoordinate(root, pos) ==
    <<dom[root][pos].cell.table.index, dom[root][pos].cell.row.index,
      dom[root][pos].cell.props.index>>

(* The mounted Cells whose ambient coordinate is coord *)
CellsAt(root, coord) == {p \in DOMAIN dom[root] : AmbientCoordinate(root, p) = coord}

MountedCells == [r \in DOMAIN dom |-> [p \in DOMAIN dom[r] |-> dom[r][p].cell]]

(* C1: after hoverCell(t, r, c) with (t, r, c) within the bounds of the     *)
(* dataset, exactly one rendered Cell is highlighted: the one whose ambient *)
(* table index is t, row index is r and own index is c.                     *)
C1_HoverHighlightsTarget ==
    (last.op = "hoverCell" /\ InBounds(tables[last.root], last.args[1], last.args[2], last.args[3]))
        => /\ Cardinality(CellsAt(last.root, last.args)) = 1
           /\ HighlightedIn(dom, last.root) = CellsAt(last.root, last.args)

C1_Witness ==
    /\ last.op = "hoverCell"
    /\ InBounds(tables[last.root], last.args[1], last.args[2], last.args[3])
    /\ Cardinality(DOMAIN dom[last.root]) > 2
    /\ last.changed = {"row", "cell"}
    /\ HighlightedIn(dom, last.root) = {last.args}

(* C2: at initial mount and after hoverReset() from any Selection, the      *)
(* Selection is all-none and no rendered Cell is highlighted; a second      *)
(* hoverReset() in a row changes nothing.                                   *)
C2_ResetClears ==
    /\ [](last.op \in {"mount", "hoverReset"}
            => \A r \in DOMAIN app :
                 (last.op = "mount" \/ r = last.root)
                    => app[r] = NoSelection /\ HighlightedIn(dom, r) = {})
    /\ [][(last.op = "hoverReset" /\ last'.op = "hoverReset" /\ last'.root = last.root)
            => app' = app /\ dom' = dom]_vars

C2_Witness ==
    /\ last.op = "hoverReset"
    /\ last.changed = Fields
    /\ DOMAIN dom[last.root] # {}
    /\ app[last.root] = NoSelection
    /\ HighlightedIn(dom, last.root) = {}

(* C3: under pointer events on mounted Cells, the three Selection fields    *)
(* are either all none or the coordinate of exactly one mounted Cell, the   *)
(* one under the pointer.                                                   *)
C3_SelectionAllOrNothing ==
    \A r \in DOMAIN app :
        \/ app[r] = NoSelection
        \/ /\ app[r].table # NoIndex /\ app[r].row # NoIndex /\ app[r].cell # NoIndex
           /\ CellsAt(r, Coordinate(app[r])) = {pointer[r]}

C3_Witness ==
    \E r \in DOMAIN app :
        /\ last.op = "pointerover" /\ last.root = r
        /\ last.changed # {}
        /\ "table" \notin last.changed
        /\ CellsAt(r, Coordinate(app[r])) = {pointer[r]}

(* C4: a pointer-enter on the Cell at position c of row r of table t sets   *)
(* the Selection to exactly (t, r, c) and only that Cell is highlighted;    *)
(* with one table of one row of two cells, entering the second cell gives   *)
(* (0, 0, 1).                                                               *)
C4_PointerEnterSelectsCell ==
    last.op = "pointerover"
        => /\ Coordinate(app[last.root]) = last.args
           /\ HighlightedIn(dom, last.root) = {last.args}

C4_Witness ==
    /\ data = <<TableSchema(1, <<2>>)>>
    /\ last.op = "pointerover"
    /\ last.args = <<0, 0, 1>>
    /\ Coordinate(app[last.root]) = <<0, 0, 1>>
    /\ HighlightedIn(dom, last.root) = {<<0, 0, 1>>}

(* C5: a pointer-leave delivered after a pointer-enter ends with the        *)
(* Selection all-none and no Cell highlighted.                              *)
C5_LeaveAfterEnterResets ==
    last.op = "pointerout"
        => app[last.root] = NoSelection /\ HighlightedIn(dom, last.root) = {}

C5_Witness ==
    /\ last.op = "pointerout"
    /\ last.changed = Fields
    /\ pointer[last.root] = NoCell
    /\ app[last.root] = NoSelection
    /\ HighlightedIn(dom, last.root) = {}

(* C6: a Cell constructed without an enclosing App, Table or Row provider   *)
(* fails with an error at construction; every mounted Cell has a defined    *)
(* table and row identity.                                                  *)
C6_OrphanCellFails ==
    /\ probe # <<>> =>
         LET scope == probe[1]
             whole == scope.AppContext.defined /\ scope.TableContext.defined
                        /\ scope.RowContext.defined
         IN  /\ ~whole => probe[2] = TypeError
             /\ whole => probe[2].outcome = "mounted"
    /\ \A r \in DOMAIN dom : \A p \in DOMAIN dom[r] :
         /\ dom[r][p].cell.outcome = "mounted"
         /\ dom[r][p].cell.table.index \in Nat
         /\ dom[r][p].cell.row.index \in Nat

C6_Witness ==
    /\ probe # <<>>
    /\ probe[1].AppContext.defined
    /\ ~probe[1].TableContext.defined
    /\ probe[1].RowContext.defined
    /\ probe[2] = TypeError

(* C7: hoverCell(t, r, c) sets the Selection to exactly (t, r, c) for any   *)
(* prior Selection and any triple, in bounds or not; the same call made     *)
(* again changes neither the Selection nor any highlight.                   *)
C7_HoverCellOverwrites ==
    /\ [](last.op = "hoverCell" => Coordinate(app[last.root]) = last.args)
    /\ [][(last.op = "hoverCell" /\ last'.op = "hoverCell" /\ last'.root = last.root
             /\ last'.args = last.args)
            => app' = app /\ dom' = dom]_vars

C7_Witness ==
    /\ last.op = "hoverCell"
    /\ ~InBounds(tables[last.root], last.args[1], last.args[2], last.args[3])
    /\ NoIndex \in {last.args[1], last.args[2], last.args[3]}
    /\ last.args # <<NoIndex, NoIndex, NoIndex>>
    /\ last.changed = {}
    /\ Coordinate(app[last.root]) = last.args

(* C8: with two roots mounted, an event on a Cell of one root leaves the    *)
(* other root's Selection and highlights unchanged.                         *)
C8_RootsIndependent ==
    [][\A r \in DOMAIN app :
          r # last'.root
             => app'[r] = app[r] /\ HighlightedIn(dom', r) = HighlightedIn(dom, r)]_vars

C8_Witness ==
    /\ DOMAIN app = Roots
    /\ last.op = "pointerout"
    /\ last.root = "rootB"
    /\ last.changed = Fields
    /\ app["rootB"] = NoSelection
    /\ app["rootA"] # NoSelection
    /\ HighlightedIn(dom, "rootA") = {Coordinate(app["rootA"])}

(* C9: no hover step changes the dataset, the tables of a root, or the set  *)
(* of mounted Cells and their coordinates.                                  *)
C9_DataNeverMutated ==
    [][data' = data /\ tables' = tables /\ MountedCells' = MountedCells]_vars

C9_Witness ==
    /\ last.op = "pointerout"
    /\ last.changed = Fields
    /\ \A r \in DOMAIN dom :
         /\ tables[r] = data
         /\ {dom[r][p].cell : p \in DOMAIN dom[r]} = App(r, data)
         /\ \A p \in DOMAIN dom[r] : AmbientCoordinate(r, p) = p

(* C10: every run of the effects during a handler reads the Selection with  *)
(* all three fields written and paints no Cell other than the new target    *)
(* (so none other than the old and the new one), and at most one Cell is    *)
(* highlighted in every state.                                              *)
C10_AtomicSelectionUpdate ==
    /\ \A i \in DOMAIN last.flushes :
         /\ last.flushes[i].seen = app[last.root]
         /\ last.flushes[i].highlighted \subseteq {<<last.root, Coordinate(app[last.root])>>}
         /\ Cardinality(last.flushes[i].highlighted) <= 1
    /\ \A r \in DOMAIN dom : Cardinality(HighlightedIn(dom, r)) <= 1

C10_Witness ==
    /\ last.op = "pointerover"
    /\ last.changed = {"row", "cell"}
    /\ Cardinality(CellsAt(last.root, Coordinate(app[last.root]))) = 1
    /\ Len(last.flushes) = 1
    /\ last.flushes[1].highlighted = {<<last.root, Coordinate(app[last.root])>>}

====
